---- MODULE Spec2Model ----
(***************************************************************************)
(* ProFlow-Agent: the session store (src/src/state/session_manager.py),    *)
(* the stateful email agent (src/src/agents/email_intelligence_agent.py)   *)
(* and the async orchestrator (src/src/workflows/async_orchestrator.py).   *)
(***************************************************************************)
EXTENDS Integers, Sequences, FiniteSets, TLC

(***************************************************************************)
(* Bounds of the model.                                                    *)
(***************************************************************************)
\* session_manager.py:147 keeps the last 1000 history entries; the model
\* keeps the last HistoryCap, so that the cap is exceeded within MaxOps steps.
HistoryCap == 3
\* operations on the SessionManager and events around it in a run
MaxOps == 4
\* the wall clock takes the values 1..MaxClock
MaxClock == 2
\* longest history found in a session file written by somebody else
MaxFileHistory == 5

\* Python's None, for the session id and the timestamps (integers here)
None == -1

\* strings that the code builds from parts are sequences of characters
Keys == {<<"k", "1">>}
NoStr == <<>>
\* what a dict handed to the store can hold: a JSON string, or a Python tuple
\* (which JSON has no form for)
Classifications == {"v1", "tup"}
\* the dicts cached and stored as analyses in the checks of the store alone
Values == {[subject |-> <<"s">>, classification |-> c] : c \in Classifications}
EmailIds == {<<"email_", "e", "1">>}
UserActions == {"a1"}

VARIABLES
  session_data,   \* SessionManager.session_data
  file,           \* the content of SessionManager.session_file
  disk,           \* what the storage medium does to a write
  now,            \* datetime.now()
  ret,            \* the operation that has just ended on the manager, and how
  nops,           \* operations performed so far
  log,            \* every entry appended since the history list was last replaced
  saved,          \* session_data as it was when it was last written to the file
  created,        \* the session ids _create_new_session has given out, in order
  batch,          \* the emails handed to the batch call
  results,        \* the results list of the batch call
  pc,             \* where the batch call is
  bi,             \* StatefulEmailAgent.process_emails: the next email of the loop
  run,            \* which submission of the batch this is
  counts,         \* cached_count and processed_count of the running submission
  first,          \* what the first submission returned
  invoked,        \* how many times the analysis functions were called
  mode,           \* AsyncOrchestrator: parallel or sequential
  tstate,         \* where each email's analysis is
  order,          \* the indices in the order their analyses finished
  wpc,            \* two threads on one SessionManager: where each is
  wop,            \* the operation each thread was asked to perform
  wtmp,           \* each thread's evaluated history[-1000:]
  chunks,         \* what has been written to the file since it was last opened
  hq,             \* the last get_history call: its arguments and what it returned
  puts,           \* the value of the latest cache_result call, by key
  rt,             \* a call of a function wrapped by retry_with_backoff
  bus,            \* the MessageBus, its subscribers and the publish calls in progress
  wf              \* a call of ProFlowOrchestrator.schedule_meeting_workflow

sessVars == <<session_data, file, disk, now, ret, nops, log, saved, created>>
batchVars == <<batch, results, pc>>
agentVars == <<bi, run, counts, first, invoked>>
orchVars == <<mode, tstate, order>>
concVars == <<wpc, wop, wtmp, chunks>>
queryVars == <<hq, puts>>
utilVars == <<rt, bus, wf>>
\* what the operations of one caller on the store leave alone
others == <<batchVars, agentVars, orchVars, concVars, queryVars, utilVars>>
vars == <<sessVars, batchVars, agentVars, orchVars, concVars, queryVars, utilVars>>

(***************************************************************************)
(* Data                                                                    *)
(***************************************************************************)
\* seq[-n:] for n >= 1: the last n elements (the whole of a shorter list)
LastN(seq, n) ==
  IF Len(seq) <= n THEN seq ELSE SubSeq(seq, Len(seq) - n + 1, Len(seq))

\* a history entry: {'timestamp', 'action', 'details', 'result'}
HistoryEntry(t, action, key, id, sid) ==
  [timestamp |-> t, action |-> action,
   details |-> [key |-> key, id |-> id, sid |-> sid]]

\* SessionManager.__init__: the session before load_session
InitialSessionData ==
  [isdict |-> TRUE, session_id |-> None, created_at |-> None, last_updated |-> None,
   processed_emails |-> <<>>, cache |-> <<>>, history |-> <<>>]

\* json.dump of one value: a tuple is written as an array, and comes back a list
JsonValue(v) == IF v = "tup" THEN "lst" ELSE v

\* a cached value or an analysis is a dict; the classification in it is any value
JsonCache(c) ==
  [k \in DOMAIN c |-> [c[k] EXCEPT !.value.classification = JsonValue(@)]]

JsonProcessed(p) ==
  [e \in DOMAIN p |-> [p[e] EXCEPT !.analysis.classification = JsonValue(@)]]

\* json.dump(self.session_data) followed by json.load: the document in the file
JsonDump(sd) ==
  [sd EXCEPT !.cache = JsonCache(@), !.processed_emails = JsonProcessed(@)]

NoDoc == InitialSessionData

FileAbsent == [kind |-> "absent", doc |-> NoDoc]
\* not JSON at all, also what a write that failed half way leaves
FileGarbage == [kind |-> "garbage", doc |-> NoDoc]
\* JSON, but not an object: [] or 3 or null
FileNonDict == [kind |-> "nondict", doc |-> NoDoc]
FileDoc(d) == [kind |-> "doc", doc |-> d]

(***************************************************************************)
(* SessionManager                                                          *)
(***************************************************************************)
\* the mutant of AppendCapped that keeps the oldest entries
AppendCappedKeepOldest(h, e) ==
  LET h2 == Append(h, e)
  IN  IF Len(h2) > HistoryCap THEN SubSeq(h2, 1, HistoryCap) ELSE h2

\* the mutant of AppendCapped that never truncates
AppendUncapped(h, e) == Append(h, e)

\* append, then keep the last HistoryCap entries
AppendCapped(h, e) ==
  LET h2 == Append(h, e)
  IN  IF Len(h2) > HistoryCap THEN LastN(h2, HistoryCap) ELSE h2

\* Python's None where a cached value is expected, in the shape of the other
\* values
NoneValue == [subject |-> NoStr, classification |-> "None"]

\* a value holding what json.dump has no encoding for (a set, an object)
Unserializable == [subject |-> <<"s">>, classification |-> "set"]

\* whether json.dump can write the session
Serializable(sd) ==
  /\ \A k \in DOMAIN sd.cache : sd.cache[k].value.classification # "set"
  /\ \A e \in DOMAIN sd.processed_emails :
       sd.processed_emails[e].analysis.classification # "set"

\* save_session: stamp last_updated, then overwrite the file; an IOError is
\* caught and reported by the return value alone, and the TypeError of
\* json.dump is not caught
SaveSession(sd, f, dsk, t) ==
  LET stamped == [sd EXCEPT !.last_updated = t]
  IN  CASE dsk = "readonly" ->   \* open(..., 'w') raises
             [sd |-> stamped, file |-> f, ok |-> FALSE, raised |-> FALSE]
        [] ~Serializable(stamped) ->   \* json.dump raises half way
             [sd |-> stamped, file |-> FileGarbage, ok |-> FALSE, raised |-> TRUE]
        [] dsk = "ok" ->
             [sd |-> stamped, file |-> FileDoc(JsonDump(stamped)), ok |-> TRUE,
              raised |-> FALSE]
        [] OTHER ->              \* the write raises after open truncated the file
             [sd |-> stamped, file |-> FileGarbage, ok |-> FALSE, raised |-> FALSE]

\* add_to_history: append, truncate, save
AddToHistory(sd, f, dsk, t, e) ==
  SaveSession([sd EXCEPT !.history = AppendCapped(@, e)], f, dsk, t)

\* _create_new_session: a fresh session named after the clock, saved at once
CreateNewSession(f, dsk, t) ==
  LET fresh == [isdict |-> TRUE, session_id |-> t, created_at |-> t,
                last_updated |-> t, processed_emails |-> <<>>, cache |-> <<>>,
                history |-> AppendCapped(<<>>,
                               HistoryEntry(t, "session_created", NoStr, NoStr, t))]
  IN  SaveSession(fresh, f, dsk, t)

\* cache_result: upsert the entry, then add_to_history('cache_set')
CacheResult(sd, f, dsk, t, key, value) ==
  LET entry == [value |-> value, cached_at |-> t]
      c2 == [k \in DOMAIN sd.cache \cup {key} |->
               IF k = key THEN entry ELSE sd.cache[k]]
  IN  AddToHistory([sd EXCEPT !.cache = c2], f, dsk, t,
                   HistoryEntry(t, "cache_set", key, NoStr, None))

\* the entry get_cached_result records: cache_hit with cached_at, or cache_miss
LookupEntry(sd, t, key) ==
  IF key \in DOMAIN sd.cache
    THEN HistoryEntry(t, "cache_hit", key, NoStr, sd.cache[key].cached_at)
    ELSE HistoryEntry(t, "cache_miss", key, NoStr, None)

\* get_cached_result: the value or None, and a cache_hit / cache_miss entry
GetCachedResult(sd, f, dsk, t, key) ==
  [res |-> AddToHistory(sd, f, dsk, t, LookupEntry(sd, t, key)),
   value |-> IF key \in DOMAIN sd.cache THEN sd.cache[key].value ELSE NoneValue]

\* the mutant of MarkEmailProcessed that records the call and stores nothing
MarkEmailProcessedHistoryOnly(sd, f, dsk, t, email_id, analysis) ==
  AddToHistory(sd, f, dsk, t,
               HistoryEntry(t, "email_processed", analysis.subject, email_id, None))

\* mark_email_processed: store the analysis, then add_to_history('email_processed')
MarkEmailProcessed(sd, f, dsk, t, email_id, analysis) ==
  LET rec == [analysis |-> analysis, processed_at |-> t]
      p2 == [e \in DOMAIN sd.processed_emails \cup {email_id} |->
               IF e = email_id THEN rec ELSE sd.processed_emails[e]]
  IN  AddToHistory([sd EXCEPT !.processed_emails = p2], f, dsk, t,
                   HistoryEntry(t, "email_processed", analysis.subject, email_id, None))

\* the mutant of IsEmailProcessed that never finds the email
IsEmailProcessedNever(sd, email_id) == FALSE

IsEmailProcessed(sd, email_id) == email_id \in DOMAIN sd.processed_emails

GetEmailAnalysis(sd, email_id) == sd.processed_emails[email_id].analysis

(***************************************************************************)
(* The session store, one caller                                           *)
(***************************************************************************)
Ret(op, outcome, wrote, value) ==
  [op |-> op, outcome |-> outcome, wrote |-> wrote, value |-> value]

Wrote(res) == IF res.ok THEN "ok" ELSE "failed"

\* a session document left in the file by an earlier run of any length
ForeignDoc ==
  [InitialSessionData EXCEPT
     !.session_id = 0, !.created_at = 0, !.last_updated = 0,
     !.history = [i \in 1..MaxFileHistory |->
                    HistoryEntry(0, "old", NoStr, NoStr, i)]]

Analyses == Values

\* no batch call
NoBatch ==
  /\ batch = <<>> /\ results = <<>> /\ pc = "idle"
  /\ bi = 1 /\ run = 0 /\ counts = [cached |-> 0, processed |-> 0] /\ first = <<>>
  /\ invoked = 0
  /\ mode = "none" /\ tstate = <<>> /\ order = <<>>

\* no second thread
NoThreads ==
  /\ wpc = <<>> /\ wop = <<>> /\ wtmp = <<>> /\ chunks = <<>>

\* the state of the store's own bookkeeping in the checks that do not use it
NoCaller ==
  /\ ret = Ret("init", "returned", "none", "None")
  /\ nops = 0
  /\ log = <<>>
  /\ saved = InitialSessionData
  /\ created = <<>>

\* no get_history call yet, and nothing put into the cache
NoQuery ==
  /\ hq = [asked |-> FALSE, action_filter |-> "None", limit |-> None,
           entries |-> <<>>, stored |-> FALSE, changed |-> FALSE]
  /\ puts = <<>>

\* no wrapped call, no message bus, no scheduling workflow
NoUtil ==
  /\ rt = <<>> /\ bus = <<>> /\ wf = <<>>

Init ==
  /\ session_data = InitialSessionData
  /\ file = FileAbsent
  /\ disk = "ok"
  /\ now = 1
  /\ NoCaller
  /\ NoBatch
  /\ NoThreads
  /\ NoQuery
  /\ NoUtil

\* the state after an operation that went through save_session
AfterSave(res, op, value, appended) ==
  /\ session_data' = res.sd
  /\ file' = res.file
  /\ ret' = Ret(op, IF res.raised THEN "raised" ELSE "returned", Wrote(res), value)
  /\ log' = appended
  /\ saved' = IF res.ok THEN res.sd ELSE saved
  /\ created' = IF op = "load_session"
                  THEN Append(created, res.sd.session_id) ELSE created
  /\ nops' = nops + 1
  /\ UNCHANGED <<disk, now, others>>

\* an operation on a session_data that is no dict raises TypeError
Raises(op) ==
  /\ ret' = Ret(op, "raised", "none", "None")
  /\ nops' = nops + 1
  /\ UNCHANGED <<session_data, file, disk, now, log, saved, created, others>>

\* the entry load_session records for a session read from the file
LoadedEntry(doc, t) ==
  HistoryEntry(t, "session_loaded", NoStr, NoStr, doc.session_id)

\* the mutant of LoadFromDoc whose check for the 'cache' key is inverted
LoadFromDocCacheReset(doc, t) ==
  [doc EXCEPT !.cache = <<>>, !.history = AppendCapped(@, LoadedEntry(doc, t))]

\* load_session on a file holding a JSON object: json.load, the three keys
\* defaulted when missing (a missing key reads as its default here), and a
\* session_loaded entry appended without a save
LoadFromDoc(doc, t) ==
  [doc EXCEPT !.history = AppendCapped(@, LoadedEntry(doc, t))]

LoadSession ==
  /\ nops < MaxOps
  /\ CASE file.kind = "doc" ->
             /\ session_data' = LoadFromDoc(file.doc, now)
             /\ log' = Append(file.doc.history, LoadedEntry(file.doc, now))
                 /\ ret' = Ret("load_session", "returned", "none", "loaded")
                 /\ nops' = nops + 1
                 /\ UNCHANGED <<file, disk, now, saved, created, others>>
        [] file.kind = "nondict" ->
             \* json.load succeeded and was assigned; the key checks raise TypeError
             /\ session_data' = [InitialSessionData EXCEPT !.isdict = FALSE]
             /\ log' = <<>>
             /\ ret' = Ret("load_session", "raised", "none", "None")
             /\ nops' = nops + 1
             /\ UNCHANGED <<file, disk, now, saved, created, others>>
        [] OTHER ->
             LET res == CreateNewSession(file, disk, now)
             IN  AfterSave(res, "load_session", "created", res.sd.history)

AddToHistoryOp ==
  /\ nops < MaxOps
  /\ \E a \in UserActions :
       IF session_data.isdict
         THEN LET e == HistoryEntry(now, a, NoStr, NoStr, None)
              IN  AfterSave(AddToHistory(session_data, file, disk, now, e),
                            "add_to_history", "None", Append(log, e))
         ELSE Raises("add_to_history")

CacheResultOp ==
  /\ nops < MaxOps
  /\ \E k \in Keys, v \in Values :
       IF session_data.isdict
         THEN AfterSave(CacheResult(session_data, file, disk, now, k, v),
                        "cache_result", "None",
                        Append(log, HistoryEntry(now, "cache_set", k, NoStr, None)))
         ELSE Raises("cache_result")

GetCachedResultOp ==
  /\ nops < MaxOps
  /\ \E k \in Keys :
       IF session_data.isdict
         THEN LET g == GetCachedResult(session_data, file, disk, now, k)
              IN  AfterSave(g.res, "get_cached_result", g.value,
                            Append(log, LookupEntry(session_data, now, k)))
         ELSE Raises("get_cached_result")

MarkEmailProcessedOp ==
  /\ nops < MaxOps
  /\ \E id \in EmailIds, a \in Analyses :
       IF session_data.isdict
         THEN AfterSave(MarkEmailProcessed(session_data, file, disk, now, id, a),
                        "mark_email_processed", "None",
                        Append(log, HistoryEntry(now, "email_processed",
                                                 a.subject, id, None)))
         ELSE Raises("mark_email_processed")

SaveSessionOp ==
  /\ nops < MaxOps
  /\ IF session_data.isdict
       THEN AfterSave(SaveSession(session_data, file, disk, now),
                      "save_session", "None", log)
       ELSE Raises("save_session")

\* the in-memory instance is dropped and a new SessionManager is constructed
NewManager ==
  /\ ret.op # "init"
  /\ session_data' = InitialSessionData
  /\ log' = <<>>
  /\ ret' = Ret("init", "returned", "none", "None")
  /\ UNCHANGED <<file, disk, now, nops, saved, created, others>>

Tick ==
  /\ now < MaxClock
  /\ now' = now + 1
  /\ UNCHANGED <<session_data, file, disk, ret, nops, log, saved, created, others>>

\* the storage medium becomes unwritable, or writable again
EnvDisk ==
  /\ nops < MaxOps
  /\ nops' = nops + 1
  /\ \E d \in {"ok", "readonly", "full"} : d # disk /\ disk' = d
  /\ ret' = Ret("none", "returned", "none", "None")
  /\ UNCHANGED <<session_data, file, now, log, saved, created, others>>

\* something else deletes, damages or replaces the session file
EnvFile ==
  /\ nops < MaxOps
  /\ nops' = nops + 1
  /\ \E f \in {FileAbsent, FileGarbage, FileNonDict, FileDoc(ForeignDoc)} :
       f # file /\ file' = f
  /\ ret' = Ret("none", "returned", "none", "None")
  /\ UNCHANGED <<session_data, disk, now, log, saved, created, others>>

Next ==
  \/ LoadSession
  \/ AddToHistoryOp
  \/ CacheResultOp
  \/ GetCachedResultOp
  \/ MarkEmailProcessedOp
  \/ SaveSessionOp
  \/ NewManager
  \/ Tick
  \/ EnvDisk
  \/ EnvFile

Spec == Init /\ [][Next]_vars

(***************************************************************************)
(* Claims about the session store                                          *)
(***************************************************************************)
MutatingOps ==
  {"add_to_history", "cache_result", "get_cached_result",
   "mark_email_processed", "load_session", "save_session"}

\* C4: after any mutating operation completes (load_session from any file
\* included), the history holds at most the cap of entries.
C4_HistoryBounded ==
  (ret.op \in MutatingOps /\ ret.outcome = "returned")
    => Len(session_data.history) <= HistoryCap

\* a load of a file whose history is longer than the cap has completed
C4_Witness ==
  /\ ret.op = "load_session" /\ ret.value = "loaded"
  /\ file.kind = "doc" /\ Len(file.doc.history) > HistoryCap
  /\ Len(session_data.history) = HistoryCap

\* C5: once more entries than the cap were appended, add_to_history leaves
\* exactly the cap most recently appended entries, in append order, the
\* newest last.
C5_EvictsOldestFirst ==
  (ret.op = "add_to_history" /\ ret.outcome = "returned" /\ Len(log) > HistoryCap)
    => /\ Len(session_data.history) = HistoryCap
       /\ \A i \in 1..HistoryCap :
            session_data.history[i] = log[Len(log) - HistoryCap + i]

\* add_to_history has pushed an entry out, and the oldest entry differs from
\* the oldest kept one
C5_Witness ==
  /\ ret.op = "add_to_history" /\ ret.outcome = "returned"
  /\ Len(log) > HistoryCap
  /\ log[1] # session_data.history[1]

\* a load of exactly the document the last successful save wrote
LoadedWhatWasSaved ==
  /\ ret.op = "load_session" /\ ret.value = "loaded"
  /\ saved.session_id # None
  /\ file = FileDoc(JsonDump(saved))

\* C6 as claimed: what load_session yields in a new manager is identical to
\* what was saved: cache, processed_emails, history, session_id, timestamps.
C6_RoundTripIdentical ==
  LoadedWhatWasSaved
    => /\ session_data.cache = saved.cache
       /\ session_data.processed_emails = saved.processed_emails
       /\ session_data.history = saved.history
       /\ session_data.session_id = saved.session_id
       /\ session_data.created_at = saved.created_at
       /\ session_data.last_updated = saved.last_updated

\* C6 amended: the loaded session has the saved session_id, created_at and
\* last_updated, the saved cache and processed_emails as JSON stores them (a
\* tuple comes back as a list), and the saved history followed by one
\* session_loaded entry, cut to the last cap entries.
C6_RoundTripUpToLoadEntry ==
  LoadedWhatWasSaved
    => LET h == session_data.history
       IN  /\ session_data.session_id = saved.session_id
           /\ session_data.created_at = saved.created_at
           /\ session_data.last_updated = saved.last_updated
           /\ DOMAIN session_data.cache = DOMAIN saved.cache
           /\ \A k \in DOMAIN saved.cache :
                /\ session_data.cache[k].cached_at = saved.cache[k].cached_at
                /\ session_data.cache[k].value.subject = saved.cache[k].value.subject
                /\ session_data.cache[k].value.classification =
                     (IF saved.cache[k].value.classification = "tup" THEN "lst"
                      ELSE saved.cache[k].value.classification)
           /\ DOMAIN session_data.processed_emails = DOMAIN saved.processed_emails
           /\ \A e \in DOMAIN saved.processed_emails :
                /\ session_data.processed_emails[e].processed_at =
                     saved.processed_emails[e].processed_at
                /\ session_data.processed_emails[e].analysis.subject =
                     saved.processed_emails[e].analysis.subject
                /\ session_data.processed_emails[e].analysis.classification =
                     (IF saved.processed_emails[e].analysis.classification = "tup"
                      THEN "lst"
                      ELSE saved.processed_emails[e].analysis.classification)
           /\ Len(h) >= 1
           /\ h[Len(h)].action = "session_loaded"
           /\ SubSeq(h, 1, Len(h) - 1) = LastN(saved.history, HistoryCap - 1)

\* a session with a cache entry and a processed email was saved and loaded
C6_Witness ==
  /\ LoadedWhatWasSaved
  /\ saved.cache # <<>>
  /\ saved.processed_emails # <<>>

\* C7: load_session never raises, whatever the file holds: it returns, and
\* what it returns is a session.
C7_LoadNeverRaises ==
  ret.op = "load_session"
    => /\ ret.outcome = "returned"
       /\ session_data.isdict

\* C8: whenever a mutating operation returns, the file holds the in-memory
\* session.
C8_PersistedOnReturn ==
  (ret.op \in MutatingOps \ {"save_session"} /\ ret.outcome = "returned")
    => file = FileDoc(JsonDump(session_data))

\* C9: an operation whose write of the session file failed does not return
\* normally.
C9_WriteFailurePropagates ==
  (ret.op \in {"cache_result", "mark_email_processed", "add_to_history"}
     /\ ret.wrote = "failed")
    => ret.outcome # "returned"

\* C11: once load_session has set a session_id on a manager, no operation on
\* that manager that returns (a further load_session after the file was
\* replaced, deleted or damaged included) changes it.
C11_SessionIdImmutable ==
  [][(session_data.session_id # None /\ ret'.op # "init"
        /\ ret'.outcome = "returned")
       => session_data'.session_id = session_data.session_id]_vars

\* C12: any two sessions made by _create_new_session have different ids.
C12_SessionIdsUnique ==
  \A i, j \in 1..Len(created) : i # j => created[i] # created[j]

\* C13: over the operations on one manager that return, last_updated never
\* moves backwards, and after one that changed the cache, the processed
\* emails or the history it is at least the time of the change.
C13_LastUpdatedMonotonic ==
  [][(ret'.op # "init" /\ ret'.outcome = "returned")
       => /\ session_data'.last_updated >= session_data.last_updated
          /\ (\/ session_data'.cache # session_data.cache
              \/ session_data'.processed_emails # session_data.processed_emails
              \/ session_data'.history # session_data.history)
               => session_data'.last_updated >= now]_vars

(***************************************************************************)
(* StatefulEmailAgent                                                      *)
(***************************************************************************)
\* emails in a batch
MaxBatch == 3

Subjects == {<<"a">>, <<"a", "b">>}
Senders == {<<"c">>, <<"b", "c">>}
Timestamps == {<<"t">>}
\* a body of None makes the analysis raise (body.lower() in the classifier)
Bodies == {"x", "y", "None"}

Emails ==
  [subject : Subjects, from : Senders, timestamp : Timestamps, body : Bodies]

\* the emails submitted to the agent: every subject and sender, and every body
\* for one of the pairs
AgentEmails ==
  {e \in Emails : e.body = "x" \/ (e.subject = <<"a">> /\ e.from = <<"c">>)}

Batches == UNION {[1..n -> AgentEmails] : n \in 0..MaxBatch}

\* hashlib.md5(...).hexdigest()[:12], taken to give different digests for
\* different contents
Md5Hex12(content) == content

\* the mutant of GenerateEmailId that hashes the body as well
GenerateEmailIdWithBody(email) ==
  <<"email_">> \o Md5Hex12(email.subject \o email.from \o email.timestamp
                              \o <<email.body>>)

\* generate_email_id: "email_" and the digest of subject + from + timestamp
GenerateEmailId(email) ==
  <<"email_">> \o Md5Hex12(email.subject \o email.from \o email.timestamp)

\* the analysis functions called with the email's fields: whether they return
AnalysisReturns(email) == email.body # "None"

\* classify_email_priority: some function of subject, sender and body
Classification(email) == IF email.body = "x" THEN "high" ELSE "low"

BatchEntry(t, total, cached, processed) ==
  [timestamp |-> t, action |-> "batch_processing_complete",
   details |-> [total |-> total, cached |-> cached, processed |-> processed]]

\* the mutant of ProcessCached that hands out the stored analysis as it is
ProcessCachedUnwrapped(sd, f, dsk, t, email) ==
  LET email_id == GenerateEmailId(email)
      s1 == AddToHistory(sd, f, dsk, t,
              HistoryEntry(t, "email_cache_hit", email.subject, email_id, None))
  IN  [sd |-> s1.sd, file |-> s1.file, raised |-> FALSE, analysed |-> FALSE,
       result |-> GetEmailAnalysis(sd, email_id)]

\* process_email on an email already marked processed
ProcessCached(sd, f, dsk, t, email) ==
  LET email_id == GenerateEmailId(email)
      s1 == AddToHistory(sd, f, dsk, t,
              HistoryEntry(t, "email_cache_hit", email.subject, email_id, None))
  IN  [sd |-> s1.sd, file |-> s1.file, raised |-> FALSE, analysed |-> FALSE,
       result |-> [GetEmailAnalysis(sd, email_id) EXCEPT
                     !.from_cache = TRUE, !.email_id = email_id]]

\* the mutant of ProcessNew that stores the analysis before it is known to
\* have succeeded
ProcessNewMarksFirst(sd, f, dsk, t, email) ==
  LET email_id == GenerateEmailId(email)
      analysis_result ==
        [email_id |-> email_id, subject |-> email.subject, from |-> email.from,
         timestamp |-> email.timestamp, classification |-> Classification(email),
         from_cache |-> FALSE, processed_at |-> t]
      s2 == MarkEmailProcessed(sd, f, dsk, t, email_id, analysis_result)
      s3 == CacheResult(s2.sd, s2.file, dsk, t,
                        <<"email_analysis_">> \o email_id, analysis_result)
  IN  [sd |-> s3.sd, file |-> s3.file, raised |-> ~AnalysisReturns(email),
       analysed |-> TRUE, result |-> analysis_result]

\* process_email on an email not seen before
ProcessNew(sd, f, dsk, t, email) ==
  LET email_id == GenerateEmailId(email)
      s1 == AddToHistory(sd, f, dsk, t,
              HistoryEntry(t, "email_processing_start", email.subject, email_id, None))
      analysis_result ==
        [email_id |-> email_id, subject |-> email.subject, from |-> email.from,
         timestamp |-> email.timestamp, classification |-> Classification(email),
         from_cache |-> FALSE, processed_at |-> s1.sd.last_updated]
      s2 == MarkEmailProcessed(s1.sd, s1.file, dsk, t, email_id, analysis_result)
      s3 == CacheResult(s2.sd, s2.file, dsk, t,
                        <<"email_analysis_">> \o email_id, analysis_result)
      s4 == AddToHistory(s3.sd, s3.file, dsk, t,
              HistoryEntry(t, "email_processing_complete", NoStr, email_id, None))
  IN  IF AnalysisReturns(email)
        THEN [sd |-> s4.sd, file |-> s4.file, raised |-> FALSE, analysed |-> TRUE,
              result |-> analysis_result]
        ELSE \* the exception leaves process_email after the start entry
             [sd |-> s1.sd, file |-> s1.file, raised |-> TRUE, analysed |-> TRUE,
              result |-> analysis_result]

\* StatefulEmailAgent.process_email
ProcessEmail(sd, f, dsk, t, email) ==
  IF IsEmailProcessed(sd, GenerateEmailId(email))
    THEN ProcessCached(sd, f, dsk, t, email)
    ELSE ProcessNew(sd, f, dsk, t, email)

\* a StatefulEmailAgent on a freshly created session, and a batch to submit
AgentInit ==
  LET res == CreateNewSession(FileAbsent, "ok", 1)
  IN  /\ session_data = res.sd
      /\ file = res.file
      /\ disk = "ok"
      /\ now = 1
      /\ NoCaller
      /\ NoThreads
      /\ NoQuery
      /\ NoUtil
      /\ batch \in Batches
      /\ results = <<>> /\ pc = "idle"
      /\ bi = 1 /\ run = 0 /\ counts = [cached |-> 0, processed |-> 0]
      /\ first = <<>> /\ invoked = 0
      /\ mode = "none" /\ tstate = <<>> /\ order = <<>>

agentFrame ==
  <<disk, ret, nops, log, saved, created, mode, tstate, order, concVars, queryVars,
    utilVars>>

\* process_emails is called with the batch, at most twice (the second time
\* also by a caller that caught the exception of the first)
AgentSubmit ==
  /\ pc \in {"idle", "returned", "raised"}
  /\ run < 2
  /\ run' = run + 1
  /\ first' = IF run = 1
                THEN [results |-> results, counts |-> counts, pc |-> pc] ELSE first
  /\ results' = <<>>
  /\ bi' = 1
  /\ counts' = [cached |-> 0, processed |-> 0]
  /\ pc' = "loop"
  /\ UNCHANGED <<session_data, file, now, batch, invoked, agentFrame>>

\* one turn of the loop: process_email, append, count
AgentProcessEmail ==
  /\ pc = "loop"
  /\ bi <= Len(batch)
  /\ LET r == ProcessEmail(session_data, file, disk, now, batch[bi])
     IN  /\ session_data' = r.sd
         /\ file' = r.file
         /\ invoked' = IF r.analysed THEN invoked + 1 ELSE invoked
         /\ IF r.raised
              THEN /\ pc' = "raised"
                   /\ UNCHANGED <<results, bi, counts>>
              ELSE /\ pc' = "loop"
                   /\ results' = Append(results, r.result)
                   /\ bi' = bi + 1
                   /\ counts' = IF r.result.from_cache
                                  THEN [counts EXCEPT !.cached = @ + 1]
                                  ELSE [counts EXCEPT !.processed = @ + 1]
  /\ UNCHANGED <<now, batch, run, first, agentFrame>>

\* after the loop: the batch_processing_complete entry, and the return
AgentReturn ==
  /\ pc = "loop"
  /\ bi > Len(batch)
  /\ LET r == AddToHistory(session_data, file, disk, now,
                  BatchEntry(now, Len(batch), counts.cached, counts.processed))
     IN  /\ session_data' = r.sd
         /\ file' = r.file
  /\ pc' = "returned"
  /\ UNCHANGED <<now, batch, results, bi, run, counts, first, invoked, agentFrame>>

AgentTick ==
  /\ now < MaxClock
  /\ now' = now + 1
  /\ UNCHANGED <<session_data, file, batchVars, agentVars, agentFrame>>

AgentNext ==
  \/ AgentSubmit
  \/ AgentProcessEmail
  \/ AgentReturn
  \/ AgentTick

SpecAgent == AgentInit /\ [][AgentNext]_vars

\* the batch went through process_emails twice and no analysis raised
SubmittedTwice == run = 2 /\ pc = "returned"

DistinctIdentities ==
  \A i, j \in 1..Len(batch) :
    i # j => GenerateEmailId(batch[i]) # GenerateEmailId(batch[j])

FirstAllProcessed ==
  /\ first.counts.processed = Len(batch)
  /\ Len(first.results) = Len(batch)
  /\ \A i \in 1..Len(batch) : ~first.results[i].from_cache

SecondAllCached ==
  /\ counts.cached = Len(batch)
  /\ counts.processed = 0
  /\ Len(results) = Len(batch)
  /\ \A i \in 1..Len(batch) : results[i].from_cache

MaxOrchBatch == 3
\* AsyncOrchestrator(max_workers): threads of the ThreadPoolExecutor
MaxWorkers == 2

OrchEmails == {e \in Emails : e.subject = <<"a">> /\ e.from = <<"c">>}

OrchBatches == UNION {[1..n -> OrchEmails] : n \in 0..MaxOrchBatch}

\* extract_action_items(...).get('action_items', []): some function of
\* subject and body
ActionItems(email) == IF email.body = "y" THEN <<"todo">> ELSE <<>>

\* extract_meeting_requests(...).get('meetings_detected', False)
MeetingsDetected(email) == email.body = "x"

\* the dict _analyze_email returns (processing_time, a measured duration, is
\* left out)
OrchResult(email, index) ==
  [email_index |-> index, subject |-> email.subject, from |-> email.from,
   classification |-> Classification(email),
   action_items |-> ActionItems(email),
   meeting_requests |-> MeetingsDetected(email)]

\* the mutant of SequentialResult that numbers the emails from one
SequentialResultFromOne(email, index) ==
  [OrchResult(email, index) EXCEPT !.email_index = index + 1]

\* the dict the sequential loop appends (processing_time left out)
SequentialResult(email, index) ==
  [email_index |-> index, subject |-> email.subject, from |-> email.from,
   classification |-> Classification(email),
   action_items |-> ActionItems(email),
   meeting_requests |-> MeetingsDetected(email)]

\* the mutant of GatherResults that lists the results as they completed
GatherResultsAsCompleted(emails, finished) ==
  [i \in 1..Len(emails) |-> OrchResult(emails[finished[i]], finished[i] - 1)]

\* asyncio.gather(*tasks): the results in the order of the awaitables
GatherResults(emails, finished) ==
  [i \in 1..Len(emails) |-> OrchResult(emails[i], i - 1)]

\* the analyses running in the thread pool
Running == {i \in DOMAIN tstate : tstate[i] = "running"}

\* the mutant of WorkerFree: a pool that starts a thread for every job
WorkerFreeAlways == TRUE

\* ThreadPoolExecutor(max_workers): a thread is idle, or may still be started
WorkerFree == Cardinality(Running) < MaxWorkers

OrchInit ==
  /\ session_data = InitialSessionData
  /\ file = FileAbsent
  /\ disk = "ok"
  /\ now = 1
  /\ NoCaller
  /\ NoThreads
  /\ NoQuery
  /\ NoUtil
  /\ batch \in OrchBatches
  /\ results = <<>> /\ pc = "idle"
  /\ bi = 1 /\ run = 0 /\ counts = [cached |-> 0, processed |-> 0] /\ first = <<>>
  /\ invoked = 0
  /\ mode = "none" /\ tstate = <<>> /\ order = <<>>

orchFrame == <<sessVars, run, counts, first, invoked, concVars, queryVars, utilVars>>

\* process_emails_parallel is called: a coroutine per email, handed to gather
ParallelCall ==
  /\ pc = "idle"
  /\ mode' = "parallel"
  /\ tstate' = [i \in 1..Len(batch) |-> "created"]
  /\ pc' = "gather"
  /\ UNCHANGED <<batch, results, bi, order, orchFrame>>

\* analyze_email_async runs up to run_in_executor: the job joins the queue of
\* the executor; the event loop starts the tasks in the order gather got them
ParallelSubmit(i) ==
  /\ pc = "gather"
  /\ tstate[i] = "created"
  /\ \A j \in 1..(i - 1) : tstate[j] # "created"
  /\ tstate' = [tstate EXCEPT ![i] = "queued"]
  /\ UNCHANGED <<batch, results, pc, bi, mode, order, orchFrame>>

\* a free thread of the pool takes the oldest job of the queue
ThreadTakes(i) ==
  /\ mode = "parallel"
  /\ tstate[i] = "queued"
  /\ \A j \in 1..(i - 1) : tstate[j] # "queued"
  /\ WorkerFree
  /\ tstate' = [tstate EXCEPT ![i] = "running"]
  /\ UNCHANGED <<batch, results, pc, bi, mode, order, orchFrame>>

\* _analyze_email ends in its thread: the future gets a result or an exception
ThreadFinishes(i) ==
  /\ mode = "parallel"
  /\ tstate[i] = "running"
  /\ tstate' = [tstate EXCEPT ![i] =
                  IF AnalysisReturns(batch[i]) THEN "finished" ELSE "excepted"]
  /\ order' = Append(order, i)
  /\ UNCHANGED <<batch, results, pc, bi, mode, orchFrame>>

\* the coroutine resumes after its await and returns, or raises
ParallelResume(i) ==
  /\ pc = "gather"
  /\ tstate[i] \in {"finished", "excepted"}
  /\ tstate' = [tstate EXCEPT ![i] = IF @ = "finished" THEN "done" ELSE "failed"]
  /\ UNCHANGED <<batch, results, pc, bi, mode, order, orchFrame>>

\* every task is done: gather gives the list; the average printed at line 138
\* divides by len(emails)
GatherReturns ==
  /\ pc = "gather"
  /\ \A i \in DOMAIN tstate : tstate[i] = "done"
  /\ results' = GatherResults(batch, order)
  /\ pc' = IF Len(batch) = 0 THEN "raised" ELSE "returned"
  /\ UNCHANGED <<batch, bi, mode, tstate, order, orchFrame>>

\* a task raised: gather passes the first exception on, without waiting for
\* the other tasks
GatherRaises ==
  /\ pc = "gather"
  /\ \E i \in DOMAIN tstate : tstate[i] = "failed"
  /\ pc' = "raised"
  /\ UNCHANGED <<batch, results, bi, mode, tstate, order, orchFrame>>

\* process_emails_sequential is called
SequentialCall ==
  /\ pc = "idle"
  /\ mode' = "sequential"
  /\ tstate' = [i \in 1..Len(batch) |-> "created"]
  /\ bi' = 1
  /\ pc' = "loop"
  /\ UNCHANGED <<batch, results, order, orchFrame>>

\* one turn of the sequential loop: the analysis, then results.append
SequentialStep ==
  /\ mode = "sequential"
  /\ pc = "loop"
  /\ bi <= Len(batch)
  /\ IF AnalysisReturns(batch[bi])
       THEN /\ results' = Append(results, SequentialResult(batch[bi], bi - 1))
            /\ tstate' = [tstate EXCEPT ![bi] = "done"]
            /\ order' = Append(order, bi)
            /\ bi' = bi + 1
            /\ pc' = "loop"
       ELSE /\ tstate' = [tstate EXCEPT ![bi] = "failed"]
            /\ pc' = "raised"
            /\ UNCHANGED <<results, order, bi>>
  /\ UNCHANGED <<batch, mode, orchFrame>>

\* after the loop: the average printed at line 200 divides by len(emails)
SequentialReturns ==
  /\ mode = "sequential"
  /\ pc = "loop"
  /\ bi > Len(batch)
  /\ pc' = IF Len(batch) = 0 THEN "raised" ELSE "returned"
  /\ UNCHANGED <<batch, results, bi, mode, tstate, order, orchFrame>>

\* the caller, having got the list or caught the exception of the first call
\* and with no job of it left in the pool, goes on to a second call
OrchAgain ==
  /\ pc \in {"returned", "raised"}
  /\ run = 0
  /\ \A i \in DOMAIN tstate : tstate[i] \notin {"queued", "running"}
  /\ first' = [mode |-> mode, pc |-> pc, results |-> results]
  /\ run' = 1
  /\ results' = <<>>
  /\ tstate' = <<>>
  /\ order' = <<>>
  /\ bi' = 1
  /\ mode' = "none"
  /\ pc' = "idle"
  /\ UNCHANGED <<batch, sessVars, counts, invoked, concVars, queryVars, utilVars>>

OrchNext ==
  \/ ParallelCall
  \/ \E i \in DOMAIN tstate : ParallelSubmit(i)
  \/ \E i \in DOMAIN tstate : ThreadTakes(i)
  \/ \E i \in DOMAIN tstate : ThreadFinishes(i)
  \/ \E i \in DOMAIN tstate : ParallelResume(i)
  \/ GatherReturns
  \/ GatherRaises
  \/ SequentialCall
  \/ SequentialStep
  \/ SequentialReturns
  \/ OrchAgain

SpecOrch == OrchInit /\ [][OrchNext]_vars

\* the threads of the pool run: a free thread takes a queued job, and a job
\* that was started ends
SpecOrchFair ==
  /\ SpecOrch
  /\ WF_vars(\E i \in DOMAIN tstate : ThreadTakes(i))
  /\ WF_vars(\E i \in DOMAIN tstate : ThreadFinishes(i))

Failing == {i \in 1..Len(batch) : ~AnalysisReturns(batch[i])}

\* C3: a batch call in which exactly one analysis raises still returns, with
\* every email of the batch in the result list.
C3_ItemFailureIsolated ==
  (pc \in {"returned", "raised"} /\ Len(batch) >= 2 /\ Cardinality(Failing) = 1)
    => /\ pc = "returned"
       /\ Len(results) = Len(batch)

(***************************************************************************)
(* Two threads on one SessionManager                                       *)
(***************************************************************************)
Threads == {1, 2}

ThreadKey(w) == IF w = 1 THEN <<"k", "1">> ELSE <<"k", "2">>

ThreadEmailId(w) == IF w = 1 THEN <<"email_", "e", "1">> ELSE <<"email_", "e", "2">>

ThreadValue == [subject |-> <<"s">>, classification |-> "v1"]

\* the calls a thread can make, each with arguments of its own
ThreadOps(w) ==
  {[op |-> "add_to_history",
    entry |-> HistoryEntry(1, IF w = 1 THEN "a1" ELSE "a2", NoStr, NoStr, None)],
   [op |-> "cache_result",
    entry |-> HistoryEntry(1, "cache_set", ThreadKey(w), NoStr, None)],
   [op |-> "mark_email_processed",
    entry |-> HistoryEntry(1, "email_processed", ThreadValue.subject,
                           ThreadEmailId(w), None)]}

\* a session whose history holds n entries
SessionWithHistory(n) ==
  [isdict |-> TRUE, session_id |-> 1, created_at |-> 1, last_updated |-> 1,
   processed_emails |-> <<>>, cache |-> <<>>,
   history |-> [i \in 1..n |->
                  IF i = 1 THEN HistoryEntry(1, "session_created", NoStr, NoStr, 1)
                  ELSE HistoryEntry(1, "a0", NoStr, NoStr, None)]]

\* what the file holds once the chunks written so far are in it
FileOf(c) ==
  IF c.hasHead /\ c.hasHist
    THEN FileDoc([c.head EXCEPT !.history = c.hist])
    ELSE FileGarbage

ThreadsInit ==
  /\ \E n \in {1, HistoryCap} : session_data = SessionWithHistory(n)
  /\ file = FileDoc(JsonDump(session_data))
  /\ chunks = [hasHead |-> TRUE, hasHist |-> TRUE,
               head |-> JsonDump(session_data), hist |-> session_data.history]
  /\ disk = "ok"
  /\ now = 1
  /\ NoCaller
  /\ NoBatch
  /\ NoQuery
  /\ NoUtil
  /\ wop \in [Threads -> UNION {ThreadOps(w) : w \in Threads}]
  /\ \A w \in Threads : wop[w] \in ThreadOps(w)
  /\ wpc = [w \in Threads |->
              IF wop[w].op = "add_to_history" THEN "append" ELSE "put"]
  /\ wtmp = [w \in Threads |-> <<>>]

threadsFrame ==
  <<disk, now, ret, nops, log, saved, created, batchVars, agentVars, orchVars,
    queryVars, utilVars>>

\* cache_result line 183 / mark_email_processed lines 218-221: the dict store
ThreadPut(w) ==
  /\ wpc[w] = "put"
  /\ session_data' =
       IF wop[w].op = "cache_result"
         THEN [session_data EXCEPT !.cache =
                 [k \in DOMAIN @ \cup {ThreadKey(w)} |->
                    IF k = ThreadKey(w)
                      THEN [value |-> ThreadValue, cached_at |-> now] ELSE @[k]]]
         ELSE [session_data EXCEPT !.processed_emails =
                 [e \in DOMAIN @ \cup {ThreadEmailId(w)} |->
                    IF e = ThreadEmailId(w)
                      THEN [analysis |-> ThreadValue, processed_at |-> now]
                      ELSE @[e]]]
  /\ wpc' = [wpc EXCEPT ![w] = "append"]
  /\ UNCHANGED <<file, wop, wtmp, chunks, threadsFrame>>

\* add_to_history line 144: history.append(entry)
ThreadAppend(w) ==
  /\ wpc[w] = "append"
  /\ session_data' = [session_data EXCEPT !.history = Append(@, wop[w].entry)]
  /\ wpc' = [wpc EXCEPT ![w] = "len"]
  /\ UNCHANGED <<file, wop, wtmp, chunks, threadsFrame>>

\* line 147: if len(history) > 1000
ThreadLen(w) ==
  /\ wpc[w] = "len"
  /\ wpc' = [wpc EXCEPT ![w] =
               IF Len(session_data.history) > HistoryCap THEN "slice" ELSE "stamp"]
  /\ UNCHANGED <<session_data, file, wop, wtmp, chunks, threadsFrame>>

\* line 148, right-hand side: history[-1000:] is evaluated
ThreadSlice(w) ==
  /\ wpc[w] = "slice"
  /\ wtmp' = [wtmp EXCEPT ![w] = LastN(session_data.history, HistoryCap)]
  /\ wpc' = [wpc EXCEPT ![w] = "assign"]
  /\ UNCHANGED <<session_data, file, wop, chunks, threadsFrame>>

\* line 148, the store: session_data['history'] = the evaluated slice
ThreadAssign(w) ==
  /\ wpc[w] = "assign"
  /\ session_data' = [session_data EXCEPT !.history = wtmp[w]]
  /\ wpc' = [wpc EXCEPT ![w] = "stamp"]
  /\ UNCHANGED <<file, wop, wtmp, chunks, threadsFrame>>

\* save_session line 116: last_updated
ThreadStamp(w) ==
  /\ wpc[w] = "stamp"
  /\ session_data' = [session_data EXCEPT !.last_updated = now]
  /\ wpc' = [wpc EXCEPT ![w] = "open"]
  /\ UNCHANGED <<file, wop, wtmp, chunks, threadsFrame>>

\* line 119: open(..., 'w') empties the file
ThreadOpen(w) ==
  /\ wpc[w] = "open"
  /\ chunks' = [chunks EXCEPT !.hasHead = FALSE, !.hasHist = FALSE]
  /\ file' = FileOf(chunks')
  /\ wpc' = [wpc EXCEPT ![w] = "head"]
  /\ UNCHANGED <<session_data, wop, wtmp, threadsFrame>>

\* line 120: json.dump writes piece by piece; first all keys before 'history'
ThreadWriteHead(w) ==
  /\ wpc[w] = "head"
  /\ chunks' = [chunks EXCEPT !.hasHead = TRUE, !.head = JsonDump(session_data)]
  /\ file' = FileOf(chunks')
  /\ wpc' = [wpc EXCEPT ![w] = "hist"]
  /\ UNCHANGED <<session_data, wop, wtmp, threadsFrame>>

\* line 120: then the 'history' list, as it is by now
ThreadWriteHistory(w) ==
  /\ wpc[w] = "hist"
  /\ chunks' = [chunks EXCEPT !.hasHist = TRUE, !.hist = session_data.history]
  /\ file' = FileOf(chunks')
  /\ wpc' = [wpc EXCEPT ![w] = "done"]
  /\ UNCHANGED <<session_data, wop, wtmp, threadsFrame>>

ThreadsNext ==
  \E w \in Threads :
    \/ ThreadPut(w)
    \/ ThreadAppend(w)
    \/ ThreadLen(w)
    \/ ThreadSlice(w)
    \/ ThreadAssign(w)
    \/ ThreadStamp(w)
    \/ ThreadOpen(w)
    \/ ThreadWriteHead(w)
    \/ ThreadWriteHistory(w)

SpecThreads == ThreadsInit /\ [][ThreadsNext]_vars

Range(seq) == {seq[i] : i \in 1..Len(seq)}

\* what thread w's call stored is in the session
ThreadEffectPresent(w) ==
  /\ wop[w].entry \in Range(session_data.history)
  /\ wop[w].op = "cache_result" => ThreadKey(w) \in DOMAIN session_data.cache
  /\ wop[w].op = "mark_email_processed"
       => ThreadEmailId(w) \in DOMAIN session_data.processed_emails

\* C10: after two concurrent calls have both returned, the history entry and
\* the cache entry or processed item of each are in the session, and the file
\* holds one complete serialization of the final session.
C10_WritesSerialized ==
  (\A w \in Threads : wpc[w] = "done")
    => /\ \A w \in Threads : ThreadEffectPresent(w)
       /\ file = FileDoc(JsonDump(session_data))

(***************************************************************************)
(* Claims about the two modes of the orchestrator                          *)
(***************************************************************************)
\* the same batch went through both modes, and this is the end of the second
BothModes ==
  /\ run = 1
  /\ pc \in {"returned", "raised"}
  /\ mode # first.mode

NextIsProcessed ==
  /\ pc = "loop"
  /\ bi <= Len(batch)
  /\ GenerateEmailId(batch[bi]) \in DOMAIN session_data.processed_emails

\* C16: process_email on an email whose identity is marked processed calls
\* no analysis function, returns the stored analysis with from_cache true,
\* leaves processed_emails and cache as they were, and appends one
\* email_cache_hit entry to the history.
C16_CachedShortCircuits ==
  [][(NextIsProcessed /\ now' = now)
       => LET email_id == GenerateEmailId(batch[bi])
              h == session_data'.history
          IN  /\ invoked' = invoked
              /\ results' =
                   Append(results,
                          [session_data.processed_emails[email_id].analysis
                             EXCEPT !.from_cache = TRUE, !.email_id = email_id])
              /\ session_data'.processed_emails = session_data.processed_emails
              /\ session_data'.cache = session_data.cache
              /\ h[Len(h)].action = "email_cache_hit"
              /\ SubSeq(h, 1, Len(h) - 1)
                   = LastN(session_data.history, HistoryCap - 1)]_vars

\* the second submission has just served an email from the store
C16_Witness ==
  /\ run = 2
  /\ bi > 1
  /\ Len(results) = bi - 1
  /\ results[bi - 1].from_cache
  /\ invoked = first.counts.processed

\* the analyses process_email has returned with from_cache false so far
ReturnedFresh ==
  {results[i] : i \in {j \in 1..Len(results) : ~results[j].from_cache}}
    \cup (IF run = 2
            THEN {first.results[i] :
                    i \in {j \in 1..Len(first.results) : ~first.results[j].from_cache}}
            ELSE {})

\* C17: once process_email has returned an analysis with from_cache false,
\* its identity is marked processed, get_email_analysis gives that analysis,
\* and the cache holds it under 'email_analysis_' + id, from then on.
C17_WrittenThrough ==
  \A r \in ReturnedFresh :
    LET key == <<"email_analysis_">> \o r.email_id
    IN  /\ IsEmailProcessed(session_data, r.email_id)
        /\ GetEmailAnalysis(session_data, r.email_id) = r
        /\ key \in DOMAIN session_data.cache
        /\ session_data.cache[key].value = r

\* two emails were analysed in the first submission, and the second
\* submission has since gone through
C17_Witness ==
  /\ run = 2 /\ pc = "returned"
  /\ Cardinality(ReturnedFresh) >= 2
  /\ now > 1

(***************************************************************************)
(* The cache of the store: cache_result and get_cached_result              *)
(***************************************************************************)
CacheKeys == {<<"k", "1">>, <<"k", "2">>}

\* cache_result(key, value: Any): the values put are any but None
CacheValues == Values \cup {Unserializable}

\* a manager that has just created its session
CacheInit ==
  LET res == CreateNewSession(FileAbsent, "ok", 1)
  IN  /\ session_data = res.sd
      /\ file = res.file
      /\ disk = "ok"
      /\ now = 1
      /\ ret = [op |-> "load_session", outcome |-> "returned", wrote |-> "ok",
                value |-> NoneValue, key |-> NoStr]
      /\ nops = 0
      /\ log = res.sd.history
      /\ saved = res.sd
      /\ created = <<res.sd.session_id>>
      /\ NoBatch
      /\ NoThreads
      /\ NoQuery
      /\ NoUtil

cacheFrame ==
  <<disk, now, created, batchVars, agentVars, orchVars, concVars, hq, utilVars>>

\* how a call that went through save_session ends
CacheCallEnds(res, op, key, value, entry) ==
  /\ session_data' = res.sd
  /\ file' = res.file
  /\ ret' = [op |-> op, outcome |-> IF res.raised THEN "raised" ELSE "returned",
             wrote |-> Wrote(res), value |-> value, key |-> key]
  /\ log' = Append(log, entry)
  /\ saved' = IF res.ok THEN res.sd ELSE saved
  /\ nops' = nops + 1

CachePut ==
  /\ nops < MaxOps
  /\ \E k \in CacheKeys, v \in CacheValues :
       /\ CacheCallEnds(CacheResult(session_data, file, disk, now, k, v),
                        "cache_result", k, NoneValue,
                        HistoryEntry(now, "cache_set", k, NoStr, None))
       /\ puts' = [q \in DOMAIN puts \cup {k} |-> IF q = k THEN v ELSE puts[q]]
  /\ UNCHANGED cacheFrame

CacheGet ==
  /\ nops < MaxOps
  /\ \E k \in CacheKeys :
       LET g == GetCachedResult(session_data, file, disk, now, k)
       IN  CacheCallEnds(g.res, "get_cached_result", k, g.value,
                         LookupEntry(session_data, now, k))
  /\ UNCHANGED <<puts, cacheFrame>>

CacheTick ==
  /\ now < MaxClock
  /\ now' = now + 1
  /\ UNCHANGED <<session_data, file, disk, ret, nops, log, saved, created, others>>

CacheNext ==
  \/ CachePut
  \/ CacheGet
  \/ CacheTick

SpecCache == CacheInit /\ [][CacheNext]_vars

\* C18: get_cached_result never raises; it returns the value of the latest
\* cache_result for the key, and None exactly when nothing was ever put under
\* the key; and it appends one entry to the history, cache_hit when the key
\* has an entry and cache_miss otherwise.
C18_LookupLatestNeverThrows ==
  ret.op = "get_cached_result"
    => /\ ret.outcome = "returned"
       /\ ret.key \in DOMAIN puts => ret.value = puts[ret.key]
       /\ ret.value = NoneValue <=> ret.key \notin DOMAIN puts
       /\ log[Len(log)].action =
            (IF ret.key \in DOMAIN puts THEN "cache_hit" ELSE "cache_miss")
       /\ log[Len(log)].details.key = ret.key
       /\ session_data.history = LastN(log, HistoryCap)

(***************************************************************************)
(* get_history                                                             *)
(***************************************************************************)
\* the actions found in the history, and the filters asked for (None, or a
\* non-empty action name)
HistoryActions == {"a1", "a2"}
ActionFilters == {"None"} \cup HistoryActions
\* limit: None, or a number from 0 to beyond the length of any history
Limits == {None} \cup (0..(HistoryCap + 1))

\* get_history: the stored list, replaced by the list of the matching entries
\* if action_filter is truthy, replaced by its last limit entries if limit is
\* truthy; what is returned is the stored list itself when neither is
GetHistory(sd, action_filter, limit) ==
  LET Matches(h) == h.action = action_filter
      filtered == IF action_filter # "None"
                    THEN SelectSeq(sd.history, Matches) ELSE sd.history
      limited == IF limit # None /\ limit # 0
                   THEN LastN(filtered, limit) ELSE filtered
  IN  [entries |-> limited,
       stored |-> ~(action_filter # "None") /\ ~(limit # None /\ limit # 0)]

\* the histories a session can hold
Histories ==
  UNION {[1..n -> {HistoryEntry(1, a, NoStr, NoStr, None) : a \in HistoryActions}]
           : n \in 0..HistoryCap}

\* a manager whose session holds some history, all of it in the file
HistoryInit ==
  /\ \E h \in Histories :
       session_data = [isdict |-> TRUE, session_id |-> 1, created_at |-> 1,
                       last_updated |-> 1, processed_emails |-> <<>>,
                       cache |-> <<>>, history |-> h]
  /\ file = FileDoc(JsonDump(session_data))
  /\ disk = "ok"
  /\ now = 1
  /\ NoCaller
  /\ NoBatch
  /\ NoThreads
  /\ NoQuery
  /\ NoUtil

historyFrame == <<disk, now, ret, nops, log, saved, created, batchVars, agentVars,
                  orchVars, concVars, puts, utilVars>>

\* get_history(action_filter, limit) is called
GetHistoryOp ==
  /\ ~hq.asked
  /\ \E f \in ActionFilters, l \in Limits :
       LET g == GetHistory(session_data, f, l)
       IN  hq' = [asked |-> TRUE, action_filter |-> f, limit |-> l,
                  entries |-> g.entries, stored |-> g.stored, changed |-> FALSE]
  /\ UNCHANGED <<session_data, file, historyFrame>>

\* the caller appends to the list it was given; when that list is the stored
\* one, the session's history is what was appended to
CallerAppends ==
  /\ hq.asked
  /\ ~hq.changed
  /\ \E a \in HistoryActions :
       hq' = [hq EXCEPT !.changed = TRUE,
                        !.entries = Append(@, HistoryEntry(now, a, NoStr, NoStr, None))]
  /\ session_data' = IF hq.stored
                       THEN [session_data EXCEPT !.history = hq'.entries]
                       ELSE session_data
  /\ UNCHANGED <<file, historyFrame>>

HistoryNext ==
  \/ GetHistoryOp
  \/ CallerAppends

SpecHistory == HistoryInit /\ [][HistoryNext]_vars

\* C19: neither get_history nor a change the caller makes to the list it
\* returned changes the session or the session file.
C19_HistoryQueryReadOnly ==
  [][(hq'.asked /\ hq' # hq)
       => /\ session_data' = session_data
          /\ file' = file]_vars

\* the entries the query is to return: those whose action is the filter (all
\* without a filter), and of these the last limit when a limit is given
QueryAnswer(h, action_filter, limit) ==
  LET Matches(e) == e.action = action_filter
      matching == IF action_filter = "None" THEN h ELSE SelectSeq(h, Matches)
  IN  IF limit = None \/ limit >= Len(matching) THEN matching
      ELSE SubSeq(matching, Len(matching) - limit + 1, Len(matching))

\* C20: get_history returns, in history order, the entries matching the
\* filter, cut to the most recent N when limit = N is given, for every
\* N >= 0: none for 0, all of them for an N beyond their number.
C20_HistoryFilterLimit ==
  (hq.asked /\ ~hq.changed)
    => hq.entries = QueryAnswer(session_data.history, hq.action_filter, hq.limit)

(***************************************************************************)
(* Claims about the identity of an email and about failing analyses        *)
(***************************************************************************)
StableFields(email) == <<email.subject, email.from, email.timestamp>>

\* the identities process_email has worked out for the emails of the batch,
\* each at its own moment of the session: in this submission and in the first
IdentitiesSeen(email) ==
  {results[i].email_id :
     i \in {j \in 1..Len(results) : StableFields(batch[j]) = StableFields(email)}}
    \cup (IF run = 2
            THEN {first.results[i].email_id :
                    i \in {j \in 1..Len(first.results) :
                             StableFields(batch[j]) = StableFields(email)}}
            ELSE {})

\* C21: emails with the same subject, from and timestamp get the same
\* identity, whatever their bodies, whenever it is worked out and whatever
\* the session holds by then.
C21_IdentityIdempotent ==
  \A i \in 1..Len(batch) : Cardinality(IdentitiesSeen(batch[i])) <= 1

\* two emails that differ in the body alone went through both submissions
C21_Witness ==
  /\ run = 2 /\ pc = "returned"
  /\ \E i, j \in 1..Len(batch) :
       /\ StableFields(batch[i]) = StableFields(batch[j])
       /\ batch[i].body # batch[j].body
       /\ IdentitiesSeen(batch[i]) # {}

\* C22: emails that differ in subject, from or timestamp get different
\* identities, and an email served from the store gets an analysis of its
\* own subject, from and timestamp.
C22_IdentityCollisionFree ==
  /\ \A i, j \in 1..Len(results) :
       StableFields(batch[i]) # StableFields(batch[j])
         => results[i].email_id # results[j].email_id
  /\ \A i \in 1..Len(results) :
       results[i].from_cache
         => <<results[i].subject, results[i].from, results[i].timestamp>>
              = StableFields(batch[i])

\* C29: when the analysis raises inside process_email, the identity of the
\* email is neither marked processed nor cached, the emails processed before
\* it in the batch are stored and in the file, and a second submission has
\* analysed the email again.
C29_FailedNotMarked ==
  pc = "raised"
    => LET email_id == GenerateEmailId(batch[bi])
       IN  /\ ~IsEmailProcessed(session_data, email_id)
           /\ (<<"email_analysis_">> \o email_id) \notin DOMAIN session_data.cache
           /\ \A i \in 1..Len(results) :
                /\ IsEmailProcessed(session_data, results[i].email_id)
                /\ results[i].email_id \in DOMAIN file.doc.processed_emails
                /\ (<<"email_analysis_">> \o results[i].email_id)
                     \in DOMAIN file.doc.cache
           /\ file = FileDoc(JsonDump(session_data))
           /\ run = 2
                => /\ first.pc = "raised"
                   /\ Len(results) = Len(first.results)
                   /\ invoked = first.counts.processed + 2

\* the second submission failed on the third email again, the two before it
\* served from the store
C29_Witness ==
  /\ pc = "raised" /\ run = 2
  /\ bi = 3
  /\ counts.cached = 2
  /\ first.counts.processed >= 1

(***************************************************************************)
(* retry_with_backoff (utils/retry_logic.py)                               *)
(*                                                                         *)
(* rt is one call of the wrapper: its configuration, the wrapped function  *)
(* (it fails its first `fails` calls, with an exception that is or is not  *)
(* of the configured `exceptions` types, and succeeds afterwards), the     *)
(* loop variable, and the events so far.  Delays are in whole units.       *)
(***************************************************************************)
MaxRetries == 2
MaxBaseDelay == 2
MaxMaxDelay == 3

\* no session manager is involved
NoSession ==
  /\ session_data = InitialSessionData
  /\ file = FileAbsent
  /\ disk = "ok"
  /\ now = 1
  /\ NoCaller
  /\ NoBatch
  /\ NoThreads
  /\ NoQuery

RECURSIVE Pow2(_)
Pow2(n) == IF n = 0 THEN 1 ELSE 2 * Pow2(n - 1)

Min(a, b) == IF a <= b THEN a ELSE b

\* the mutant of BackoffDelay without the cap
BackoffDelayUncapped(base_delay, attempt, max_delay) ==
  base_delay * Pow2(attempt)

\* delay = min(base_delay * (2 ** attempt), max_delay)
BackoffDelay(base_delay, attempt, max_delay) ==
  Min(base_delay * Pow2(attempt), max_delay)

\* the mutant of IsLastAttempt that gives up one attempt early
IsLastAttemptEarly(attempt, max_retries) == attempt + 1 >= max_retries

\* if attempt == max_retries: raise
IsLastAttempt(attempt, max_retries) == attempt = max_retries

\* the mutant of OnRetryAttempt that counts retries from 0
OnRetryAttemptZeroBased(attempt) == attempt

\* on_retry(attempt + 1, e)
OnRetryAttempt(attempt) == attempt + 1

\* an event of the call: the function invoked ("invoke", with the exception it
\* raised, 0 when it returned), the callback called, or a wait.  An exception
\* is named by the number of the invocation that raised it.
RetryEvent(kind, attempt, exc, delay) ==
  [kind |-> kind, attempt |-> attempt, exc |-> exc, delay |-> delay]

RetryInit ==
  /\ NoSession
  /\ bus = <<>> /\ wf = <<>>
  /\ \E max_retries \in (-1)..MaxRetries, base_delay \in 0..MaxBaseDelay,
        max_delay \in 1..MaxMaxDelay, on_retry \in {"None", "returns", "raises"},
        fails \in 0..(MaxRetries + 1), retryable \in BOOLEAN :
       rt = [max_retries |-> max_retries, base_delay |-> base_delay,
             max_delay |-> max_delay, on_retry |-> on_retry,
             fails |-> fails, retryable |-> retryable,
             attempt |-> 0, invocations |-> 0, last_exception |-> 0,
             events |-> <<>>, pc |-> "loop",
             outcome |-> [kind |-> "running", exc |-> 0]]

retryFrame ==
  <<sessVars, batchVars, agentVars, orchVars, concVars, queryVars, bus, wf>>

\* the loop body up to the return or the except clause: func is invoked and
\* returns
FuncReturns ==
  /\ rt.pc = "loop"
  /\ rt.attempt <= rt.max_retries
  /\ rt.invocations >= rt.fails
  /\ rt' = [rt EXCEPT
       !.invocations = @ + 1,
       !.events = Append(@, RetryEvent("invoke", rt.attempt, 0, 0)),
       !.pc = "done",
       !.outcome = [kind |-> "returned", exc |-> 0]]
  /\ UNCHANGED retryFrame

\* func is invoked and raises: an exception outside `exceptions` leaves the
\* wrapper, one inside it is re-raised on the last attempt and otherwise
\* leads to the callback and the wait
FuncRaises ==
  /\ rt.pc = "loop"
  /\ rt.attempt <= rt.max_retries
  /\ rt.invocations < rt.fails
  /\ LET e == rt.invocations + 1
         ev == Append(rt.events, RetryEvent("invoke", rt.attempt, e, 0))
     IN  rt' = IF ~rt.retryable
               THEN [rt EXCEPT !.invocations = e, !.events = ev, !.pc = "done",
                               !.outcome = [kind |-> "raised", exc |-> e]]
               ELSE IF IsLastAttempt(rt.attempt, rt.max_retries)
               THEN [rt EXCEPT !.invocations = e, !.events = ev,
                               !.last_exception = e, !.pc = "done",
                               !.outcome = [kind |-> "raised", exc |-> e]]
               ELSE [rt EXCEPT !.invocations = e, !.events = ev,
                               !.last_exception = e,
                               !.pc = IF rt.on_retry # "None"
                                      THEN "on_retry" ELSE "sleep"]
  /\ UNCHANGED retryFrame

\* on_retry(attempt + 1, e); what it raises is caught and logged
OnRetry ==
  /\ rt.pc = "on_retry"
  /\ rt' = [rt EXCEPT
       !.events = Append(@, RetryEvent("on_retry", OnRetryAttempt(rt.attempt),
                                       rt.last_exception, 0)),
       !.pc = "sleep"]
  /\ UNCHANGED retryFrame

\* time.sleep(delay), then the next round of the loop
Sleep ==
  /\ rt.pc = "sleep"
  /\ rt' = [rt EXCEPT
       !.events = Append(@, RetryEvent("sleep", rt.attempt, 0,
                    BackoffDelay(rt.base_delay, rt.attempt, rt.max_delay))),
       !.attempt = @ + 1,
       !.pc = "loop"]
  /\ UNCHANGED retryFrame

\* the loop ends without a return or a raise (max_retries < 0 only):
\* raise last_exception with last_exception None is a TypeError
LoopExhausted ==
  /\ rt.pc = "loop"
  /\ rt.attempt > rt.max_retries
  /\ rt' = [rt EXCEPT !.pc = "done",
                      !.outcome = [kind |-> "raised_type_error", exc |-> 0]]
  /\ UNCHANGED retryFrame

RetryNext ==
  \/ FuncReturns
  \/ FuncRaises
  \/ OnRetry
  \/ Sleep
  \/ LoopExhausted

SpecRetry == RetryInit /\ [][RetryNext]_vars

EventsOf(kind) == SelectSeq(rt.events, LAMBDA ev : ev.kind = kind)

\* the delay the specification gives for the wait after attempt a (from 0)
IsBackoff(delay, a) ==
  /\ delay <= rt.base_delay * 2^a
  /\ delay <= rt.max_delay
  /\ delay = rt.base_delay * 2^a \/ delay = rt.max_delay

RetryReturnsAfter(k) ==
  /\ rt.outcome.kind = "returned"
  /\ rt.invocations = k + 1
  /\ Len(EventsOf("invoke")) = k + 1
  /\ Len(EventsOf("sleep")) = k
  /\ \A a \in 0..(k - 1) : IsBackoff(EventsOf("sleep")[a + 1].delay, a)

\* C23 as stated: a function that fails its first k calls and then succeeds,
\* 0 <= k <= max_retries, makes the wrapper return after k+1 invocations and
\* waits of min(base_delay * 2^a, max_delay).
C23_FailsThenSucceeds ==
  (rt.pc = "done" /\ rt.fails <= rt.max_retries) => RetryReturnsAfter(rt.fails)

\* C23, amended: the same for a function whose failures are of the configured
\* `exceptions` types.
C23_RetryableFailsThenSucceeds ==
  (rt.pc = "done" /\ rt.fails <= rt.max_retries /\ rt.retryable)
    => RetryReturnsAfter(rt.fails)

\* two failures, then the success, with the cap reached by the second wait
C23_Witness ==
  /\ rt.pc = "done" /\ rt.retryable
  /\ rt.fails = 2 /\ rt.max_retries = 2
  /\ rt.base_delay * 2 > rt.max_delay
  /\ rt.base_delay < rt.max_delay
  /\ rt.outcome.kind = "returned"

RetryExhausted ==
  /\ rt.outcome = [kind |-> "raised", exc |-> rt.max_retries + 1]
  /\ rt.invocations = rt.max_retries + 1
  /\ Len(EventsOf("invoke")) = rt.max_retries + 1
  /\ Len(EventsOf("sleep")) = rt.max_retries
  /\ rt.events[Len(rt.events)] =
       RetryEvent("invoke", rt.max_retries, rt.max_retries + 1, 0)

\* C24 as stated: a function that fails on every attempt is invoked
\* max_retries + 1 times with max_retries waits, none after the last attempt,
\* and the caller gets the exception of the last invocation.
C24_AlwaysFailing ==
  (rt.pc = "done" /\ rt.max_retries >= 0 /\ rt.fails > rt.max_retries)
    => RetryExhausted

\* C24, amended: the same for a function whose failures are of the configured
\* `exceptions` types.
C24_RetryableAlwaysFailing ==
  (rt.pc = "done" /\ rt.max_retries >= 0 /\ rt.fails > rt.max_retries
     /\ rt.retryable)
    => RetryExhausted

\* every attempt failed, with at least one retry
C24_Witness ==
  /\ rt.pc = "done" /\ rt.retryable
  /\ rt.max_retries >= 1 /\ rt.fails > rt.max_retries
  /\ rt.outcome.kind = "raised"

\* C25: with an on_retry callback, at every moment of a call the callback has
\* been called once per retry, with attempt numbers 1, 2, ... and the
\* exception of the failed invocation just before it, each call right after
\* the failure and right before the wait; nothing follows a success or the
\* final failure.
C25_OnRetryEveryRetry ==
  rt.on_retry # "None" =>
    /\ rt.pc \in {"loop", "done"}
         => Len(EventsOf("on_retry")) = Len(EventsOf("sleep"))
    /\ \A i \in 1..Len(EventsOf("on_retry")) : EventsOf("on_retry")[i].attempt = i
    /\ \A i \in 1..Len(rt.events) :
         /\ rt.events[i].kind = "on_retry"
              => /\ i > 1
                 /\ rt.events[i - 1].kind = "invoke"
                 /\ rt.events[i - 1].exc # 0
                 /\ rt.events[i].exc = rt.events[i - 1].exc
                 /\ i < Len(rt.events) => rt.events[i + 1].kind = "sleep"
         /\ rt.events[i].kind = "sleep"
              => i > 1 /\ rt.events[i - 1].kind = "on_retry"
    /\ rt.pc = "done" /\ rt.events # <<>>
         => rt.events[Len(rt.events)].kind = "invoke"

\* two retries were observed by a callback that raises, then the call ended
C25_Witness ==
  /\ rt.pc = "done" /\ rt.on_retry = "raises"
  /\ Len(EventsOf("on_retry")) = 2
  /\ Len(EventsOf("sleep")) = 2

(***************************************************************************)
(* MessageBus and BaseAgent (messaging/message_bus.py, agents/base_agent.py)*)
(*                                                                         *)
(* bus is the global MessageBus: the subscriptions in the order they were  *)
(* made (subscribers[name] is the subsequence of that name), the message   *)
(* history, the log file, and what the last call did.  A callback is       *)
(* BaseAgent.handle_message ("agent") or a callable that raises            *)
(* ("failing").  A message is named by n, its place in the history.        *)
(***************************************************************************)
MaxSubscriptions == 2
MaxPublishes == 2
MessageLogCap == 3

AgentNames == {"a", "b"}
BusSenders == {"a", "c"}
BusReceivers == {"b", "ALL"}
MessageTypes == {"request", "broadcast"}

AgentMessage(sender, receiver, message_type, n) ==
  [sender |-> sender, receiver |-> receiver, message_type |-> message_type,
   n |-> n]

\* agent_name in self.subscribers
IsSubscribed(subscribers, agent_name) ==
  \E i \in 1..Len(subscribers) : subscribers[i].name = agent_name

\* self.subscribers[agent_name]
CallbacksOf(subscribers, agent_name) ==
  SelectSeq(subscribers, LAMBDA cb : cb.name = agent_name)

\* the names of self.subscribers in the order of the dict
RECURSIVE SubscribedNames(_)
SubscribedNames(subscribers) ==
  IF subscribers = <<>> THEN <<>>
  ELSE LET front == SubscribedNames(SubSeq(subscribers, 1, Len(subscribers) - 1))
           name == subscribers[Len(subscribers)].name
       IN  IF \E i \in 1..Len(front) : front[i] = name THEN front
           ELSE Append(front, name)

RECURSIVE CallbacksOfAll(_, _)
CallbacksOfAll(subscribers, names) ==
  IF names = <<>> THEN <<>>
  ELSE CallbacksOf(subscribers, Head(names))
         \o CallbacksOfAll(subscribers, Tail(names))

\* the mutant of BroadcastTargets that delivers to the sender as well
BroadcastTargetsWithSender(subscribers, sender) ==
  CallbacksOfAll(subscribers, SubscribedNames(subscribers))

\* the callbacks a broadcast goes to: those of every agent but the sender
BroadcastTargets(subscribers, sender) ==
  CallbacksOfAll(subscribers,
                 SelectSeq(SubscribedNames(subscribers),
                           LAMBDA name : name # sender))

\* the mutant of CallbackErrorCaught that lets the exception through
CallbackErrorUncaught(cb) == cb.kind # "failing"

\* try: callback(message) except Exception: log
CallbackErrorCaught(cb) == TRUE

\* _save_history: the last messages go to the log file
SaveHistory(b) ==
  [b EXCEPT !.log_file = LastN(b.message_history, MessageLogCap)]

RECURSIVE Publish(_, _)
RECURSIVE Deliver(_, _, _, _)

\* BaseAgent.handle_message: a REQUEST is answered by a RESPONSE to its
\* sender, published from inside the callback
HandleMessage(b, cb, message) ==
  IF message.message_type = "request"
  THEN Publish(b, AgentMessage(cb.name, message.sender, "response",
                               Len(b.message_history) + 1))
  ELSE b

\* the loop over the callbacks of publish, from the i-th on
Deliver(b, message, callbacks, i) ==
  IF i > Len(callbacks) \/ b.raised THEN b
  ELSE LET cb == callbacks[i]
           b1 == [b EXCEPT !.delivered =
                    Append(@, [cb |-> cb.id, n |-> message.n,
                               raised |-> cb.kind = "failing"])]
           b2 == IF cb.kind = "agent" THEN HandleMessage(b1, cb, message)
                 ELSE IF CallbackErrorCaught(cb) THEN b1
                 ELSE [b1 EXCEPT !.raised = TRUE]
       IN  Deliver(b2, message, callbacks, i + 1)

\* MessageBus.publish
Publish(b, message) ==
  LET b1 == SaveHistory([b EXCEPT !.message_history = Append(@, message),
                                  !.sent = Append(@, message)])
  IN  IF IsSubscribed(b.subscribers, message.receiver)
      THEN Deliver(b1, message, CallbacksOf(b.subscribers, message.receiver), 1)
      ELSE IF message.receiver = "ALL"
      THEN Deliver(b1, message,
                   BroadcastTargets(b.subscribers, message.sender), 1)
      ELSE b1

\* the mutant of GetConversation that sees one direction only
GetConversationOneWay(message_history, agent1, agent2) ==
  SelectSeq(message_history,
            LAMBDA msg : msg.sender = agent1 /\ msg.receiver = agent2)

\* MessageBus.get_conversation
GetConversation(message_history, agent1, agent2) ==
  SelectSeq(message_history,
            LAMBDA msg : \/ msg.sender = agent1 /\ msg.receiver = agent2
                         \/ msg.sender = agent2 /\ msg.receiver = agent1)

NoMessage == AgentMessage("None", "None", "None", 0)

\* the global bus after MessageBus(): nothing subscribed, the history as
\* _load_history found it in the log file
BusInit ==
  /\ NoSession
  /\ rt = <<>> /\ wf = <<>>
  /\ \E loaded \in {<<>>, <<AgentMessage("b", "a", "broadcast", 1)>>} :
       bus = [subscribers |-> <<>>, message_history |-> loaded,
              log_file |-> loaded, sent |-> loaded, published |-> 0,
              op |-> "init", message |-> NoMessage, before |-> Len(loaded),
              delivered |-> <<>>, raised |-> FALSE]

busFrame ==
  <<sessVars, batchVars, agentVars, orchVars, concVars, queryVars, rt, wf>>

\* MessageBus.subscribe
Subscribe(b, agent_name, kind) ==
  [b EXCEPT !.subscribers =
              Append(@, [name |-> agent_name, kind |-> kind, id |-> Len(@) + 1]),
            !.op = "subscribe", !.message = NoMessage,
            !.before = Len(b.message_history),
            !.delivered = <<>>, !.raised = FALSE]

\* BaseAgent(name): the agent subscribes its handle_message under its name
BaseAgentInit ==
  /\ Len(bus.subscribers) < MaxSubscriptions
  /\ \E name \in AgentNames : bus' = Subscribe(bus, name, "agent")
  /\ UNCHANGED busFrame

\* message_bus.subscribe(name, callback) with a callback that raises
SubscribeFailing ==
  /\ Len(bus.subscribers) < MaxSubscriptions
  /\ \E name \in AgentNames : bus' = Subscribe(bus, name, "failing")
  /\ UNCHANGED busFrame

\* message_bus.publish(message), called from outside any callback
\* (BaseAgent.send_message, BaseAgent.broadcast or directly)
BusPublish ==
  /\ bus.published < MaxPublishes
  /\ \E sender \in BusSenders, receiver \in BusReceivers,
        message_type \in MessageTypes :
       LET message == AgentMessage(sender, receiver, message_type,
                                   Len(bus.message_history) + 1)
       IN  bus' = Publish([bus EXCEPT
                     !.published = @ + 1, !.op = "publish",
                     !.message = message,
                     !.before = Len(bus.message_history),
                     !.delivered = <<>>, !.raised = FALSE],
                   message)
  /\ UNCHANGED busFrame

BusNext ==
  \/ BaseAgentInit
  \/ SubscribeFailing
  \/ BusPublish

SpecBus == BusInit /\ [][BusNext]_vars

\* the callbacks the last published message was handed to, in order
DeliveredTo(n) ==
  LET d == SelectSeq(bus.delivered, LAMBDA x : x.n = n)
  IN  [i \in 1..Len(d) |-> d[i].cb]

SubscribedIds(names) ==
  {bus.subscribers[i].id :
     i \in {j \in 1..Len(bus.subscribers) : bus.subscribers[j].name \in names}}

Once(seq, set) ==
  /\ \A x \in set : Cardinality({i \in 1..Len(seq) : seq[i] = x}) = 1
  /\ \A i \in 1..Len(seq) : seq[i] \in set

\* the last message went to those the claim names, once each
DeliveredAsClaimed ==
  LET m == bus.message
      to == DeliveredTo(m.n)
  IN  /\ IsSubscribed(bus.subscribers, m.receiver)
           => Once(to, SubscribedIds({m.receiver}))
      /\ m.receiver = "ALL"
           => Once(to, SubscribedIds((AgentNames \cup BusSenders) \ {m.sender}))

C28_OneResponse ==
  (/\ bus.op = "publish"
   /\ bus.message.message_type = "request"
   /\ \E i \in 1..Len(bus.subscribers) :
        /\ bus.subscribers[i].name = bus.message.receiver
        /\ bus.subscribers[i].kind = "agent")
    => SubSeq(bus.message_history, bus.before + 1, Len(bus.message_history))
         = <<bus.message,
             AgentMessage(bus.message.receiver, bus.message.sender, "response",
                          bus.before + 2)>>

\* C30: when a callback raised during publish, every callback the message
\* is for was still called once, publish did not raise, and the message is
\* in message_history.
C30_FailingSubscriberIsolated ==
  (/\ bus.op = "publish"
   /\ \E i \in 1..Len(bus.delivered) :
        bus.delivered[i].raised /\ bus.delivered[i].n = bus.message.n)
    => /\ DeliveredAsClaimed
       /\ ~bus.raised
       /\ \E i \in 1..Len(bus.message_history) :
            bus.message_history[i] = bus.message

\* the first of two callbacks of the receiver raised, the second was called
C30_Witness ==
  /\ bus.op = "publish"
  /\ Len(bus.delivered) >= 2
  /\ bus.delivered[1].raised
  /\ bus.delivered[1].n = bus.message.n
  /\ bus.delivered[2].n = bus.message.n

(***************************************************************************)
(* ProFlowOrchestrator.schedule_meeting_workflow (workflows/orchestrator.py)*)
(*                                                                         *)
(* wf is one call: the check_conflicts argument, the loop variable, the    *)
(* result dict (iterations, and final_outcome, "unset" while the key is    *)
(* absent) and whether the call has returned.  What the scheduling tools   *)
(* answer is chosen freely in every iteration.                             *)
(***************************************************************************)
MaxIterations == 3
MaxSlots == 3

IterationResult(number, slots_found, is_feasible, outcome) ==
  [number |-> number, slots_found |-> slots_found, is_feasible |-> is_feasible,
   outcome |-> outcome]

WorkflowInit ==
  /\ NoSession
  /\ rt = <<>> /\ bus = <<>>
  /\ \E check_conflicts \in BOOLEAN :
       wf = [check_conflicts |-> check_conflicts, iteration |-> 1,
             iterations |-> <<>>, final_outcome |-> "unset", pc |-> "loop"]

workflowFrame ==
  <<sessVars, batchVars, agentVars, orchVars, concVars, queryVars, rt, bus>>

\* one round of the loop: check_availability answers total_options, and
\* check_scheduling_conflicts (when asked) answers is_feasible
WorkflowIteration ==
  /\ wf.pc = "loop"
  /\ wf.iteration <= MaxIterations
  /\ \E total_options \in 0..MaxSlots, is_feasible \in BOOLEAN :
       LET has_conflicts == wf.check_conflicts /\ ~is_feasible
           feasible == IF wf.check_conflicts THEN is_feasible ELSE TRUE
       IN  wf' =
             IF total_options = 0
             THEN [wf EXCEPT
                     !.iterations = Append(@, IterationResult(
                        wf.iteration, 0, TRUE, "no_availability")),
                     !.pc = "after_loop"]
             ELSE IF ~has_conflicts
             THEN [wf EXCEPT
                     !.iterations = Append(@, IterationResult(
                        wf.iteration, total_options, feasible, "success")),
                     !.final_outcome = "scheduled",
                     !.pc = "after_loop"]
             ELSE [wf EXCEPT
                     !.iterations = Append(@, IterationResult(
                        wf.iteration, total_options, FALSE, "conflicts_found")),
                     !.final_outcome =
                        IF wf.iteration = MaxIterations
                        THEN "failed_after_max_iterations" ELSE @,
                     !.iteration = @ + 1,
                     !.pc = IF wf.iteration = MaxIterations
                            THEN "after_loop" ELSE "loop"]
  /\ UNCHANGED workflowFrame

\* return result
WorkflowReturn ==
  /\ wf.pc = "after_loop"
  /\ wf' = [wf EXCEPT !.pc = "returned"]
  /\ UNCHANGED workflowFrame

WorkflowNext ==
  \/ WorkflowIteration
  \/ WorkflowReturn

SpecWorkflow == WorkflowInit /\ [][WorkflowNext]_vars

====
